---- MODULE Spec2Model ----
(***************************************************************************)
(* Guesscasso round controller: the Game component of src/README.md        *)
(* (lines 75-416), a React function component.                             *)
(*                                                                         *)
(* One action per event handler, timer callback or promise continuation.   *)
(* An action that sets state includes the render React schedules for it.   *)
(* The three useEffect callbacks (the ref syncs of README.md:124-130 and   *)
(* the main game loop of README.md:155-186) are passive effects: React     *)
(* runs them in a task of their own after the render, and at the latest    *)
(* before the next render.  A render caused by a click runs them at once.  *)
(* The environment (player, network, image loading, timer firing) is free  *)
(* to interleave its events in any order.                                  *)
(*                                                                         *)
(* The text input state `guess` (README.md:87) is display only and is not  *)
(* modelled.                                                               *)
(***************************************************************************)
EXTENDS Integers, Sequences, FiniteSets

\* Program constants (README.md:81-82)
TIME_PER_ROUND == 20
NUM_IMAGES == 10

\* Bounds of the model
MaxRounds == 2     \* startGame is taken at most this many times
MaxFrames == 1     \* data.images is empty or has MaxFrames entries
MaxPending == 1    \* evaluate requests in flight at the same time
MaxScore == 400    \* positive results are delivered while the score stays within it
MaxRoundsDeep == 3 \* startGame is taken at most this many times in the longer session

\* The component keeps no round identifier.  Timers and requests are tagged
\* here with the round that created them, relative to the current one: "cur"
\* when startGame has not run since, "old" otherwise.
Gen == {"cur", "old"}

VARIABLES
    gameState,          \* 'initial' | 'loading' | 'running' | 'ended'
    timeLeft,           \* useState(TIME_PER_ROUND)
    currentImageIndex,  \* useState(0)
    images,             \* imageData.images: sequence of frame references
    loaded,             \* imageData.loaded: the keys of the object (all map to true)
    score,              \* GameContext
    numRounds,          \* GameContext
    categories,         \* GameContext
    correctWords,       \* GameContext
    isGameRunningRef,   \* useRef, synced by a passive effect
    timeLeftRef,        \* useRef, synced by a passive effect
    effectDeps,         \* [isGameRunning, allImagesReady] of the last run of the effects
    intervals,          \* live setInterval timers, counted per Gen
    pendingFetch,       \* startGame calls suspended in `await fetchImage()`, per Gen
    pendingEval,        \* checkAnswer calls suspended in `await fetch(...)`, per Gen
    ticks,              \* history: setTimeLeft calls of timer callbacks since startGame
    endedBy             \* history: what made gameState 'ended' ("none" while it is not)

vars == <<gameState, timeLeft, currentImageIndex, images, loaded, score, numRounds,
          categories, correctWords, isGameRunningRef, timeLeftRef, effectDeps,
          intervals, pendingFetch, pendingEval, ticks, endedBy>>

----------------------------------------------------------------------------
\* Derived state (README.md:109-119)

isNewGame == numRounds = 0
isGameRunning == gameState = "running"
isLoading == gameState = "loading"
isGameEnded == gameState = "ended"

\* allImagesReady as a function of imageData; every value stored in `loaded` is
\* true, so `every(loaded => loaded)` holds and the count decides.
allReady(imgs, ld) ==
    IF Len(imgs) = 0 THEN FALSE
    ELSE Cardinality(ld) = Len(imgs)

allImagesReady == allReady(images, loaded)

\* Math.min / Math.floor of README.md:173-175
Min(a, b) == IF a < b THEN a ELSE b

\* newImageIndex with a fault: Math.min(..., NUM_IMAGES - 1) is left out
newImageIndex_noClamp(timeElapsed) ==
    LET divisor == TIME_PER_ROUND \div NUM_IMAGES
    IN  timeElapsed \div divisor

newImageIndex(timeElapsed) ==
    LET divisor == TIME_PER_ROUND \div NUM_IMAGES
    IN  Min(timeElapsed \div divisor, NUM_IMAGES - 1)

\* Session store mutators of GameContext (not in src/)
addToScore(s, delta) == s + delta
incrementRounds(n) == n + 1

\* A payload of the generation service, tagged with the Gen of its request
payloadImages(g, n) == [i \in 1..n |-> g]
payloadPair(g) == <<g, g>>

\* startGame makes everything in flight belong to an earlier round
age(f) == [g \in Gen |-> IF g = "old" THEN f["old"] + f["cur"] ELSE 0]

Sum(f) == LET RECURSIVE S(_)
              S(D) == IF D = {} THEN 0
                      ELSE LET x == CHOOSE y \in D : TRUE IN f[x] + S(D \ {x})
          IN S(DOMAIN f)

----------------------------------------------------------------------------
\* Passive effects

\* mainLoopEffect with a fault: the effect never gets to setInterval
mainLoopEffect_noInterval(ivs, deps, run, rdy) == ivs

\* Main game loop effect (README.md:155-186): runs when a dependency changed,
\* returns early unless running and all images ready, otherwise creates an
\* interval.  The effect callback returns nothing (the cleanup is the result
\* of the inner async function, which is dropped), so no interval is ever
\* cleared by React.  ivs are the live timers, deps the dependencies of the
\* previous run, run and rdy those of the render whose effects run.
mainLoopEffect(ivs, deps, run, rdy) ==
    IF (deps.run # run \/ deps.rdy # rdy) /\ run /\ rdy
    THEN [ivs EXCEPT !["cur"] = @ + 1]
    ELSE ivs

curDeps == [run |-> isGameRunning, rdy |-> allImagesReady]

\* The effects of the current render have not run yet
effectsPending ==
    \/ isGameRunningRef # isGameRunning
    \/ timeLeftRef # timeLeft
    \/ effectDeps # curDeps

\* The timers after the effects of the current render have run
afterEffects(ivs) == mainLoopEffect(ivs, effectDeps, isGameRunning, allImagesReady)

\* React runs the effects of the current render in a task of their own
flushPassiveEffects ==
    /\ effectsPending
    /\ isGameRunningRef' = isGameRunning
    /\ timeLeftRef' = timeLeft
    /\ effectDeps' = curDeps
    /\ intervals' = afterEffects(intervals)
    /\ UNCHANGED <<gameState, timeLeft, currentImageIndex, images, loaded, score,
                   numRounds, categories, correctWords, pendingFetch, pendingEval,
                   ticks, endedBy>>

\* A render outside a click: the effects of the previous render run first,
\* those of the new render stay pending.  ivs are the timers the handler left.
renderDeferred(ivs) ==
    /\ isGameRunningRef' = isGameRunning
    /\ timeLeftRef' = timeLeft
    /\ effectDeps' = curDeps
    /\ intervals' = afterEffects(ivs)

\* A render caused by a click: the effects of the previous render, then
\* those of the new render (gs, tl, imgs, ld) run before the handler returns.
renderSync(ivs, gs, tl, imgs, ld) ==
    /\ isGameRunningRef' = (gs = "running")
    /\ timeLeftRef' = tl
    /\ effectDeps' = [run |-> gs = "running", rdy |-> allReady(imgs, ld)]
    /\ intervals' = mainLoopEffect(ivs, curDeps, gs = "running", allReady(imgs, ld))

----------------------------------------------------------------------------
Init ==
    /\ gameState = "initial"
    /\ timeLeft = TIME_PER_ROUND
    /\ currentImageIndex = 0
    /\ images = <<>>
    /\ loaded = {}
    /\ score = 0
    /\ numRounds = 0
    /\ categories = <<>>
    /\ correctWords = <<>>
    /\ isGameRunningRef = FALSE
    /\ timeLeftRef = TIME_PER_ROUND
    /\ effectDeps = [run |-> FALSE, rdy |-> FALSE]
    /\ intervals = [g \in Gen |-> 0]
    /\ pendingFetch = [g \in Gen |-> 0]
    /\ pendingEval = [g \in Gen |-> 0]
    /\ ticks = 0
    /\ endedBy = "none"

\* The start control is the initial image (README.md:265-273) or the button
\* (README.md:355-366), which is rendered when the game is not running and is
\* disabled while loading or while mounted images are not all ready.
startEnabled ==
    \/ isNewGame /\ gameState = "initial"
    \/ /\ ~isGameRunning
       /\ ~(isLoading \/ (Len(images) > 0 /\ ~allImagesReady))

\* startGame with a fault: setCurrentImageIndex(0) is left out
startGame_keepsIndex ==
    /\ startEnabled
    /\ numRounds < MaxRounds
    /\ gameState' = "loading"
    /\ timeLeft' = TIME_PER_ROUND
    /\ numRounds' = incrementRounds(numRounds)
    /\ images' = <<>>
    /\ loaded' = {}
    /\ categories' = <<>>
    /\ correctWords' = <<>>
    /\ pendingFetch' = [age(pendingFetch) EXCEPT !["cur"] = 1]
    /\ pendingEval' = age(pendingEval)
    /\ renderSync(age(afterEffects(intervals)), "loading", TIME_PER_ROUND, <<>>, {})
    /\ ticks' = 0
    /\ endedBy' = "none"
    /\ UNCHANGED <<score, currentImageIndex>>

\* startGame up to its await (README.md:133-146), from a click, in a session
\* of at most maxRounds rounds
startGameUpTo(maxRounds) ==
    /\ startEnabled
    /\ numRounds < maxRounds
    /\ gameState' = "loading"
    /\ timeLeft' = TIME_PER_ROUND
    /\ numRounds' = incrementRounds(numRounds)
    /\ currentImageIndex' = 0
    /\ images' = <<>>
    /\ loaded' = {}
    /\ categories' = <<>>
    /\ correctWords' = <<>>
    /\ pendingFetch' = [age(pendingFetch) EXCEPT !["cur"] = 1]
    /\ pendingEval' = age(pendingEval)
    /\ renderSync(age(afterEffects(intervals)), "loading", TIME_PER_ROUND, <<>>, {})
    /\ ticks' = 0
    /\ endedBy' = "none"
    /\ UNCHANGED score

startGame == startGameUpTo(MaxRounds)

\* fetchImage resolves with a payload of n frames and startGame continues
\* (README.md:192-201, 147).  `loaded` is kept by the `...prev` spread.
fetchImageResolved(g, n) ==
    /\ pendingFetch[g] > 0
    /\ pendingFetch' = [pendingFetch EXCEPT ![g] = @ - 1]
    /\ images' = payloadImages(g, n)
    /\ categories' = payloadPair(g)
    /\ correctWords' = payloadPair(g)
    /\ gameState' = "running"
    /\ renderDeferred(intervals)
    /\ endedBy' = "none"
    /\ UNCHANGED <<timeLeft, currentImageIndex, loaded, score, numRounds, pendingEval,
                   ticks>>

\* fetchImageFailed with a fault: the failed attempt is taken back from the counter
fetchImageFailed_rollback(g) ==
    /\ pendingFetch[g] > 0
    /\ pendingFetch' = [pendingFetch EXCEPT ![g] = @ - 1]
    /\ numRounds' = numRounds - 1
    /\ UNCHANGED <<gameState, timeLeft, currentImageIndex, images, loaded, score,
                   categories, correctWords, isGameRunningRef, timeLeftRef,
                   effectDeps, intervals, pendingEval, ticks, endedBy>>

\* fetch or response.json() throws: fetchImage logs and rethrows, the promise
\* of startGame rejects and line 147 is never reached (README.md:202-205).
fetchImageFailed(g) ==
    /\ pendingFetch[g] > 0
    /\ pendingFetch' = [pendingFetch EXCEPT ![g] = @ - 1]
    /\ UNCHANGED <<gameState, timeLeft, currentImageIndex, images, loaded, score,
                   numRounds, categories, correctWords, isGameRunningRef, timeLeftRef,
                   effectDeps, intervals, pendingEval, ticks, endedBy>>

\* The Stop Game button (README.md:367-373) calls stopGame (README.md:150-152)
stopGame ==
    /\ isGameRunning
    /\ gameState' = "ended"
    /\ renderSync(afterEffects(intervals), "ended", timeLeft, images, loaded)
    /\ endedBy' = "stop"
    /\ UNCHANGED <<timeLeft, currentImageIndex, images, loaded, score, numRounds,
                   categories, correctWords, pendingFetch, pendingEval, ticks>>

\* stopGameCall with a fault: the rounds are counted when they are stopped
stopGameCall_countsRound ==
    /\ gameState \in {"running", "ended"}
    /\ numRounds < MaxRounds
    /\ gameState' = "ended"
    /\ numRounds' = incrementRounds(numRounds)
    /\ renderSync(afterEffects(intervals), "ended", timeLeft, images, loaded)
    /\ endedBy' = IF isGameEnded THEN endedBy ELSE "stop"
    /\ UNCHANGED <<timeLeft, currentImageIndex, images, loaded, score, categories,
                   correctWords, pendingFetch, pendingEval, ticks>>

\* A call of the function stopGame (README.md:150-152) in a round that is
\* running or already ended.  setGameState('ended') with the state already
\* 'ended' is a state update to the same value: no render follows.
stopGameCall ==
    /\ gameState \in {"running", "ended"}
    /\ IF isGameEnded THEN UNCHANGED vars ELSE stopGame

\* The round-over branch of the render (README.md:377-408) shows the answer pair
answerShown ==
    /\ Len(images) # 0
    /\ ~((isGameRunning \/ isLoading) /\ Len(categories) > 0)
    /\ isGameEnded
    /\ Len(correctWords) > 0

\* The frame elements exist while imageData.images is not empty
\* (README.md:276-302); index is 0-based as in the source.
mounted(index) == index \in 0..(Len(images) - 1)

markLoaded(index) ==
    /\ mounted(index)
    /\ loaded' = loaded \cup {index}
    /\ renderDeferred(intervals)
    /\ UNCHANGED <<gameState, timeLeft, currentImageIndex, images, score, numRounds,
                   categories, correctWords, pendingFetch, pendingEval, ticks, endedBy>>

\* README.md:245-250
handleImageLoad(index) == markLoaded(index)

\* README.md:252-258
handleImageError(index) == markLoaded(index)

\* intervalCallback with a fault: the expiry test is `prevTime - 1 < 0`
intervalCallback_lateExpiry(g) ==
    /\ intervals[g] > 0
    /\ IF ~isGameRunningRef
       THEN /\ intervals' = [intervals EXCEPT ![g] = @ - 1]
            /\ UNCHANGED <<gameState, timeLeft, currentImageIndex, isGameRunningRef,
                           timeLeftRef, effectDeps, ticks, endedBy>>
       ELSE LET expired == timeLeft - 1 < 0
            IN  /\ gameState' = IF expired THEN "ended" ELSE gameState
                /\ timeLeft' = IF expired THEN TIME_PER_ROUND ELSE timeLeft - 1
                /\ currentImageIndex' = newImageIndex(TIME_PER_ROUND - timeLeftRef)
                /\ renderDeferred(IF expired THEN [intervals EXCEPT ![g] = @ - 1]
                                  ELSE intervals)
                /\ ticks' = ticks + 1
                /\ endedBy' = IF expired /\ ~isGameEnded THEN "timeout" ELSE endedBy
    /\ UNCHANGED <<images, loaded, score, numRounds, categories, correctWords,
                   pendingFetch, pendingEval>>

\* intervalCallback with a fault: at expiry the updater returns prevTime - 1
\* instead of TIME_PER_ROUND
intervalCallback_keepsZero(g) ==
    /\ intervals[g] > 0
    /\ IF ~isGameRunningRef
       THEN /\ intervals' = [intervals EXCEPT ![g] = @ - 1]
            /\ UNCHANGED <<gameState, timeLeft, currentImageIndex, isGameRunningRef,
                           timeLeftRef, effectDeps, ticks, endedBy>>
       ELSE LET expired == timeLeft - 1 <= 0
            IN  /\ gameState' = IF expired THEN "ended" ELSE gameState
                /\ timeLeft' = timeLeft - 1
                /\ currentImageIndex' = newImageIndex(TIME_PER_ROUND - timeLeftRef)
                /\ renderDeferred(IF expired THEN [intervals EXCEPT ![g] = @ - 1]
                                  ELSE intervals)
                /\ ticks' = ticks + 1
                /\ endedBy' = IF expired /\ ~isGameEnded THEN "timeout" ELSE endedBy
    /\ UNCHANGED <<images, loaded, score, numRounds, categories, correctWords,
                   pendingFetch, pendingEval>>

\* intervalCallback with a fault: the frame index is computed from the time
\* remaining instead of the time elapsed
intervalCallback_countsDown(g) ==
    /\ intervals[g] > 0
    /\ IF ~isGameRunningRef
       THEN /\ intervals' = [intervals EXCEPT ![g] = @ - 1]
            /\ UNCHANGED <<gameState, timeLeft, currentImageIndex, isGameRunningRef,
                           timeLeftRef, effectDeps, ticks, endedBy>>
       ELSE LET expired == timeLeft - 1 <= 0
            IN  /\ gameState' = IF expired THEN "ended" ELSE gameState
                /\ timeLeft' = IF expired THEN TIME_PER_ROUND ELSE timeLeft - 1
                /\ currentImageIndex' = newImageIndex(timeLeftRef)
                /\ renderDeferred(IF expired THEN [intervals EXCEPT ![g] = @ - 1]
                                  ELSE intervals)
                /\ ticks' = ticks + 1
                /\ endedBy' = IF expired /\ ~isGameEnded THEN "timeout" ELSE endedBy
    /\ UNCHANGED <<images, loaded, score, numRounds, categories, correctWords,
                   pendingFetch, pendingEval>>

\* intervalCallback with a fault: the isGameRunningRef guard is left out
intervalCallback_noGuard(g) ==
    /\ intervals[g] > 0
    /\ LET expired == timeLeft - 1 <= 0
       IN  /\ gameState' = IF expired THEN "ended" ELSE gameState
           /\ timeLeft' = IF expired THEN TIME_PER_ROUND ELSE timeLeft - 1
           /\ currentImageIndex' = newImageIndex(TIME_PER_ROUND - timeLeftRef)
           /\ renderDeferred(IF expired THEN [intervals EXCEPT ![g] = @ - 1]
                             ELSE intervals)
           /\ ticks' = ticks + 1
           /\ endedBy' = IF expired /\ ~isGameEnded THEN "timeout" ELSE endedBy
    /\ UNCHANGED <<images, loaded, score, numRounds, categories, correctWords,
                   pendingFetch, pendingEval>>

\* The callback of an interval of generation g (README.md:159-177).  It reads
\* both refs as the last run of the effects left them.
intervalCallback(g) ==
    /\ intervals[g] > 0
    /\ IF ~isGameRunningRef
       THEN /\ intervals' = [intervals EXCEPT ![g] = @ - 1]
            /\ UNCHANGED <<gameState, timeLeft, currentImageIndex, isGameRunningRef,
                           timeLeftRef, effectDeps, ticks, endedBy>>
       ELSE LET expired == timeLeft - 1 <= 0
            IN  /\ gameState' = IF expired THEN "ended" ELSE gameState
                /\ timeLeft' = IF expired THEN TIME_PER_ROUND ELSE timeLeft - 1
                /\ currentImageIndex' = newImageIndex(TIME_PER_ROUND - timeLeftRef)
                /\ renderDeferred(IF expired THEN [intervals EXCEPT ![g] = @ - 1]
                                  ELSE intervals)
                /\ ticks' = ticks + 1
                /\ endedBy' = IF expired /\ ~isGameEnded THEN "timeout" ELSE endedBy
    /\ UNCHANGED <<images, loaded, score, numRounds, categories, correctWords,
                   pendingFetch, pendingEval>>

\* Form submit (README.md:336-340) -> handleAction (README.md:233-237) ->
\* checkAnswer up to its await (README.md:208-221)
handleAction ==
    /\ Sum(pendingEval) < MaxPending
    /\ IF isGameRunning
       THEN pendingEval' = [pendingEval EXCEPT !["cur"] = @ + 1]
       ELSE pendingEval' = pendingEval
    /\ UNCHANGED <<gameState, timeLeft, currentImageIndex, images, loaded, score,
                   numRounds, categories, correctWords, isGameRunningRef, timeLeftRef,
                   effectDeps, intervals, pendingFetch, ticks, endedBy>>

\* checkAnswer continues with data.score == 1 (README.md:222-227)
checkAnswerPositive(g) ==
    /\ pendingEval[g] > 0
    /\ score + timeLeftRef * 10 <= MaxScore
    /\ pendingEval' = [pendingEval EXCEPT ![g] = @ - 1]
    /\ score' = addToScore(score, timeLeftRef * 10)
    /\ gameState' = "ended"
    /\ renderDeferred(intervals)
    /\ endedBy' = IF isGameEnded THEN endedBy ELSE "guess"
    /\ UNCHANGED <<timeLeft, currentImageIndex, images, loaded, numRounds, categories,
                   correctWords, pendingFetch, ticks>>

\* checkAnswer continues with data.score != 1: the if is skipped
checkAnswerNegative(g) ==
    /\ pendingEval[g] > 0
    /\ pendingEval' = [pendingEval EXCEPT ![g] = @ - 1]
    /\ UNCHANGED <<gameState, timeLeft, currentImageIndex, images, loaded, score,
                   numRounds, categories, correctWords, isGameRunningRef, timeLeftRef,
                   effectDeps, intervals, pendingFetch, ticks, endedBy>>

\* fetch or response.json() throws in checkAnswer: the catch logs to the
\* console and returns (README.md:228-230)
checkAnswerError(g) ==
    /\ pendingEval[g] > 0
    /\ pendingEval' = [pendingEval EXCEPT ![g] = @ - 1]
    /\ UNCHANGED <<gameState, timeLeft, currentImageIndex, images, loaded, score,
                   numRounds, categories, correctWords, isGameRunningRef, timeLeftRef,
                   effectDeps, intervals, pendingFetch, ticks, endedBy>>

Next ==
    \/ startGame
    \/ \E g \in Gen, n \in {0, MaxFrames} : fetchImageResolved(g, n)
    \/ \E g \in Gen : fetchImageFailed(g)
    \/ stopGame
    \/ \E i \in 0..(MaxFrames - 1) : handleImageLoad(i)
    \/ \E i \in 0..(MaxFrames - 1) : handleImageError(i)
    \/ \E g \in Gen : intervalCallback(g)
    \/ flushPassiveEffects
    \/ handleAction
    \/ \E g \in Gen : checkAnswerPositive(g)
    \/ \E g \in Gen : checkAnswerNegative(g)
    \/ \E g \in Gen : checkAnswerError(g)

Spec == Init /\ [][Next]_vars

\* The same program in a session one round longer, for the runs that need a
\* third round (two fetches outstanding).
NextDeep ==
    \/ startGameUpTo(MaxRoundsDeep)
    \/ \E g \in Gen, n \in {0, MaxFrames} : fetchImageResolved(g, n)
    \/ \E g \in Gen : fetchImageFailed(g)
    \/ stopGame
    \/ \E i \in 0..(MaxFrames - 1) : handleImageLoad(i)
    \/ \E i \in 0..(MaxFrames - 1) : handleImageError(i)
    \/ \E g \in Gen : intervalCallback(g)
    \/ flushPassiveEffects
    \/ handleAction
    \/ \E g \in Gen : checkAnswerPositive(g)
    \/ \E g \in Gen : checkAnswerNegative(g)
    \/ \E g \in Gen : checkAnswerError(g)

SpecDeep == Init /\ [][NextDeep]_vars

\* The program with stopGame also called directly, as its callers in the
\* component do, whether or not the Stop Game button is rendered.
NextStop ==
    \/ Next
    \/ stopGameCall

SpecStop == Init /\ [][NextStop]_vars

\* The program with its scheduling: a live interval keeps firing (setInterval,
\* README.md:159) and React runs the effects of a render that has been
\* committed.  Nothing is assumed of the player, the generation service or
\* the evaluator.
Fairness ==
    /\ \A g \in Gen : WF_vars(intervalCallback(g))
    /\ WF_vars(flushPassiveEffects)

SpecFair == Init /\ [][Next]_vars /\ Fairness

----------------------------------------------------------------------------
\* The frame index computation of README.md:172-177 on its own, applied to
\* every elapsed time from 0 to TIME_PER_ROUND.  The elapsed time is held the
\* way the callback reads it, as TIME_PER_ROUND - timeLeftRef.

InitMapper ==
    /\ gameState = "running"
    /\ timeLeft \in 1..TIME_PER_ROUND
    /\ timeLeftRef = timeLeft
    /\ isGameRunningRef = TRUE
    /\ currentImageIndex = 0
    /\ images = payloadImages("cur", MaxFrames)
    /\ loaded = 0..(MaxFrames - 1)
    /\ categories = payloadPair("cur")
    /\ correctWords = payloadPair("cur")
    /\ score = 0
    /\ numRounds = 1
    /\ effectDeps = [run |-> TRUE, rdy |-> TRUE]
    /\ intervals = [g \in Gen |-> IF g = "cur" THEN 1 ELSE 0]
    /\ pendingFetch = [g \in Gen |-> 0]
    /\ pendingEval = [g \in Gen |-> 0]
    /\ ticks = 0
    /\ endedBy = "none"

\* timeElapsed = TIME_PER_ROUND - timeLeftRef.current takes the value e
setTimeElapsed(e) ==
    /\ timeLeftRef' = TIME_PER_ROUND - e
    /\ UNCHANGED <<gameState, timeLeft, currentImageIndex, images, loaded, score,
                   numRounds, categories, correctWords, isGameRunningRef, effectDeps,
                   intervals, pendingFetch, pendingEval, ticks, endedBy>>

\* README.md:173-177: setCurrentImageIndex(newImageIndex)
computeImageIndex ==
    /\ currentImageIndex' = newImageIndex(TIME_PER_ROUND - timeLeftRef)
    /\ UNCHANGED <<gameState, timeLeft, images, loaded, score, numRounds, categories,
                   correctWords, isGameRunningRef, timeLeftRef, effectDeps, intervals,
                   pendingFetch, pendingEval, ticks, endedBy>>

NextMapper ==
    \/ \E e \in 0..TIME_PER_ROUND : setTimeElapsed(e)
    \/ computeImageIndex

SpecMapper == InitMapper /\ [][NextMapper]_vars

----------------------------------------------------------------------------
\* Properties

\* A timer callback that gets past its isGameRunningRef guard applies a tick
TickApplied == \E g \in Gen : intervalCallback(g) /\ isGameRunningRef

\* C1: from startGame until every frame of the payload has been marked ready,
\* time remaining stays TIME_PER_ROUND.
C1_TimerWaitsForBarrier ==
    (gameState \in {"loading", "running"} /\ ~allImagesReady)
        => timeLeft = TIME_PER_ROUND

\* C2: a positive result in a running round with time remaining t adds exactly
\* 10 * t to the score and ends the round, and no tick is applied to an ended
\* round.
C2_CorrectGuessScoresAndStops ==
    [][ /\ \A g \in Gen : (isGameRunning /\ checkAnswerPositive(g))
                => (score' = score + 10 * timeLeft /\ gameState' = "ended")
        /\ (isGameEnded /\ \E g \in Gen : intervalCallback(g))
                => UNCHANGED <<gameState, timeLeft, currentImageIndex, score>>
      ]_vars

\* C3: a tick applied to a running round ends it exactly when it is the 20th
\* since startGame (before that the round keeps running with time remaining
\* TIME_PER_ROUND minus the ticks); a tick never changes the score; the round
\* ended by the timeout shows the answer pair when the frames were ready.
C3_TimeoutAtTwentiethTick ==
    [][ (isGameRunning /\ TickApplied)
            => /\ ticks' < TIME_PER_ROUND
                    => (gameState' = "running" /\ timeLeft' = TIME_PER_ROUND - ticks')
               /\ ticks' = TIME_PER_ROUND
                    => (gameState' = "ended" /\ endedBy' = "timeout")
               /\ score' = score
               /\ (gameState' = "ended" /\ allImagesReady)
                    => (answerShown' /\ correctWords' = correctWords)
      ]_vars

\* C3 witness: round 1 ended by the 20th tick with nothing scored
C3_Witness ==
    /\ isGameEnded /\ endedBy = "timeout" /\ ticks = TIME_PER_ROUND
    /\ score = 0 /\ answerShown /\ numRounds = 1

\* C4: once a round is ended, a later terminal attempt (positive result,
\* timer callback, stopGame) leaves score and round state unchanged.
C4_FirstTerminalTransitionWins ==
    [][ (isGameEnded /\ ( \/ \E g \in Gen : checkAnswerPositive(g)
                          \/ \E g \in Gen : intervalCallback(g)
                          \/ stopGame ))
            => UNCHANGED <<score, gameState, timeLeft, currentImageIndex>>
      ]_vars

\* C5: a positive result that arrives after the round ended by timeout is
\* discarded: the score is unchanged and the round stays ended by timeout.
C5_LatePositiveDiscarded ==
    [][ \A g \in Gen : (isGameEnded /\ endedBy = "timeout" /\ checkAnswerPositive(g))
            => (score' = score /\ gameState' = "ended" /\ endedBy' = "timeout")
      ]_vars

\* C6: the result of an evaluate or fetch call issued in an earlier round
\* changes neither the score nor the state, time remaining, frames or answer
\* pair of the current round.
C6_StaleResultDiscarded ==
    [][ ( \/ checkAnswerPositive("old") \/ checkAnswerNegative("old")
          \/ checkAnswerError("old") \/ fetchImageFailed("old")
          \/ \E n \in {0, MaxFrames} : fetchImageResolved("old", n) )
            => UNCHANGED <<score, gameState, timeLeft, images, correctWords>>
      ]_vars

\* C7: a failed fetch in 'loading' brings the controller back to 'initial'.
C7_FetchFailureReturnsToIdle ==
    [][ \A g \in Gen : (isLoading /\ fetchImageFailed(g)) => gameState' = "initial" ]_vars

\* C8: startGame adds exactly 1 to the round counter and no other step
\* changes it (a failed fetch does not roll it back).
C8_RoundCounter ==
    [][ /\ startGame => numRounds' = numRounds + 1
        /\ ~startGame => numRounds' = numRounds
      ]_vars

\* C8 witness: the fetch of round 1 has failed and the counter is still 1
C8_Witness ==
    /\ isLoading /\ numRounds = 1
    /\ pendingFetch["cur"] = 0 /\ pendingFetch["old"] = 0

\* C9: a failed evaluation leaves the round running with score, time remaining
\* and frame index unchanged, and its outcome differs from that of an
\* incorrect guess (the step is not one an incorrect guess can take).
C9_EvaluationErrorSurfaced ==
    [][ \A g \in Gen : (isGameRunning /\ checkAnswerError(g))
            => /\ UNCHANGED <<gameState, score, timeLeft, currentImageIndex>>
               /\ ~checkAnswerNegative(g)
      ]_vars

\* C10: a guess is sent to the evaluator only while ticking is armed (running
\* with all frames ready).
C10_GuessOnlyWhileArmed ==
    [][ (handleAction /\ ~(isGameRunning /\ allImagesReady))
            => pendingEval' = pendingEval
      ]_vars

\* C11: startGame from 'ended' sets time remaining to TIME_PER_ROUND and the
\* frame index to 0 whatever they were and whatever ended the previous round,
\* and until a tick is applied no step changes either of them.
C11_StartResetsTimeAndIndex ==
    [][ /\ (isGameEnded /\ startGame)
            => (timeLeft' = TIME_PER_ROUND /\ currentImageIndex' = 0)
        /\ (~startGame /\ ~TickApplied)
            => UNCHANGED <<timeLeft, currentImageIndex>>
        /\ (numRounds' > 0 /\ ticks' = 0)
            => (timeLeft' = TIME_PER_ROUND /\ currentImageIndex' = 0)
      ]_vars

\* C11 witness: round 2 has been started after round 1 was ended by a guess
\* worth 50 (time remaining 5, frame index past 0) and no tick has come yet
C11_Witness ==
    /\ numRounds = 2 /\ isLoading /\ ticks = 0 /\ score = 50
    /\ timeLeft = TIME_PER_ROUND /\ currentImageIndex = 0

\* C12: with TIME_PER_ROUND 20 and NUM_IMAGES 10 the frame index computed for
\* an elapsed time e in 0..20 is min(floor(e / 2), 9): it is floor(e / 2) for
\* e up to 19, it is not above the index of e + 1, and it is 9 for e = 19 and
\* for e = 20.
C12_FrameIndexMapper ==
    [][ computeImageIndex
            => LET e == TIME_PER_ROUND - timeLeftRef
               IN  /\ e \in 0..20
                   /\ currentImageIndex' = (IF e \div 2 < 9 THEN e \div 2 ELSE 9)
                   /\ e <= 19 => currentImageIndex' = e \div 2
                   /\ e < 20 => currentImageIndex' <= newImageIndex(e + 1)
                   /\ e >= 19 => currentImageIndex' = 9
      ]_vars

\* C12 witness: elapsed time 20 has been mapped to the last index, 9
C12_Witness ==
    /\ timeLeftRef = 0 /\ currentImageIndex = 9 /\ TIME_PER_ROUND = 20 /\ NUM_IMAGES = 10

\* C13: the frames are all ready exactly when the payload has N >= 1 frames
\* and each index 0..N-1 has been marked (by a load or by a load error); the
\* marked indices are indices of the payload, so never more than N.
C13_ReadinessBarrier ==
    /\ allImagesReady <=> (Len(images) > 0 /\ loaded = 0..(Len(images) - 1))
    /\ loaded \subseteq 0..(Len(images) - 1)
    /\ Cardinality(loaded) <= Len(images)

\* C14: a call of stopGame in a round that is already ended (in particular a
\* second call right after the first) leaves round state, time remaining,
\* frame index, score and round counter as they are.
C14_StopIdempotent ==
    [][ (isGameEnded /\ stopGameCall)
            => UNCHANGED <<gameState, timeLeft, currentImageIndex, score, numRounds>>
      ]_vars

\* C14 witness: round 1 was stopped in mid-round; the second call applies here
C14_Witness ==
    /\ isGameEnded /\ endedBy = "stop" /\ numRounds = 1 /\ score = 0
    /\ timeLeft < TIME_PER_ROUND /\ currentImageIndex > 0

\* C15: at most one fetch is outstanding, and the start control is available
\* only in 'initial' or 'ended' with no fetch outstanding, whatever results
\* and timer callbacks have been delivered.
C15_StartOnlyWhenIdleOrEnded ==
    /\ Sum(pendingFetch) <= 1
    /\ startEnabled => (gameState \in {"initial", "ended"} /\ Sum(pendingFetch) = 0)

\* C16 as stated: a tick applied to a running round takes exactly 1 from the
\* time remaining, and the round becomes ended exactly when that brings it
\* to 0, so a round just ended by timeout has time remaining 0.
C16_TimeoutLeavesZero ==
    [][ (isGameRunning /\ TickApplied)
            => /\ timeLeft' = timeLeft - 1
               /\ (gameState' = "ended") <=> (timeLeft' = 0)
      ]_vars

\* C16 amended: a tick applied to a running round with time remaining above 1
\* takes exactly 1 from it and the round keeps running; the tick applied at
\* time remaining 1 ends the round by timeout and sets time remaining to
\* TIME_PER_ROUND.
C16_TimeoutResetsTimeLeft ==
    [][ (isGameRunning /\ TickApplied)
            => /\ timeLeft >= 1
               /\ timeLeft > 1
                    => (timeLeft' = timeLeft - 1 /\ gameState' = "running")
               /\ timeLeft = 1
                    => /\ gameState' = "ended" /\ endedBy' = "timeout"
                       /\ timeLeft' = TIME_PER_ROUND
      ]_vars

\* C16 witness: a round ended by timeout, showing time remaining TIME_PER_ROUND
C16_Witness ==
    /\ isGameEnded /\ endedBy = "timeout"
    /\ timeLeft = TIME_PER_ROUND /\ currentImageIndex = NUM_IMAGES - 1

\* C17: after a tick that leaves the round running, the frame index is the
\* index computed for the elapsed time TIME_PER_ROUND minus the time remaining
\* after that tick's decrement.
C17_IndexFollowsDecrementedTime ==
    [][ (isGameRunning /\ TickApplied /\ gameState' = "running")
            => currentImageIndex' = newImageIndex(TIME_PER_ROUND - timeLeft')
      ]_vars

\* C18: in a running round, up to the tick that ends it, no step lowers the
\* frame index, the index stays within 0..NUM_IMAGES-1, and the tick that
\* ends the round by timeout leaves it at NUM_IMAGES-1.
C18_IndexMonotoneToLast ==
    [][ (isGameRunning /\ ticks < TIME_PER_ROUND)
            => /\ currentImageIndex' >= currentImageIndex
               /\ currentImageIndex' \in 0..(NUM_IMAGES - 1)
               /\ (TickApplied /\ gameState' = "ended")
                    => currentImageIndex' = NUM_IMAGES - 1
      ]_vars

\* C18 witness: round 1 has just been ended by timeout with the last frame
\* shown and every timer gone
C18_Witness ==
    /\ isGameEnded /\ endedBy = "timeout" /\ currentImageIndex = NUM_IMAGES - 1
    /\ numRounds = 1 /\ Sum(intervals) = 0 /\ Sum(pendingEval) = 0

\* C19: time remaining is an integer in 0..TIME_PER_ROUND in every state, no
\* step from a running round to a running round raises it, and no step taken
\* in 'loading' changes it.
C19_TimeLeftRange ==
    [][ /\ timeLeft \in 0..TIME_PER_ROUND /\ timeLeft' \in 0..TIME_PER_ROUND
        /\ (isGameRunning /\ gameState' = "running") => timeLeft' <= timeLeft
        /\ isLoading => timeLeft' = timeLeft
      ]_vars

\* C19 witness: round 2 is loading while a timer of round 1 is still live,
\* and time remaining, reset by startGame, is TIME_PER_ROUND
C19_Witness ==
    /\ isLoading /\ numRounds = 2 /\ intervals["old"] > 0
    /\ timeLeft = TIME_PER_ROUND /\ Sum(pendingFetch) = 1

\* C20: at most one interval is live at any time, and the callback of an
\* interval created in an earlier round never applies a tick to the current
\* round.
C20_OneTimerPerRound ==
    [][ /\ Sum(intervals) <= 1 /\ Sum(intervals') <= 1
        /\ (intervalCallback("old") /\ intervals["cur"] = 0)
                => UNCHANGED <<gameState, timeLeft, currentImageIndex>>
      ]_vars

\* C21: with live intervals firing, a running round whose frames (at least
\* one) are all ready and that has had fewer than TIME_PER_ROUND ticks is
\* eventually ended, with at most TIME_PER_ROUND ticks in all, whatever is
\* guessed and whatever the evaluator answers or fails to answer.
C21_ReadyRoundEnds ==
    (isGameRunning /\ allImagesReady /\ ticks < TIME_PER_ROUND)
        ~> (isGameEnded /\ ticks <= TIME_PER_ROUND)

\* C21 witness: the frames were ready, a guess was submitted and never
\* answered, and the 20th tick has ended the round
C21_Witness ==
    /\ isGameEnded /\ endedBy = "timeout" /\ allImagesReady
    /\ ticks = TIME_PER_ROUND /\ pendingEval["cur"] = 1
====
